---------------------------- MODULE Spec2Model ----------------------------
(***************************************************************************)
(* A model of generate_structure.py: the filtered walk of a repository,    *)
(* the description heuristics, the extraction of include directives from   *)
(* markup files and the assembly and writing of project_structure.json.    *)
(*                                                                         *)
(* Strings are TLA+ strings handled character by character (Len, SubSeq    *)
(* and \o), so suffix tests, substring tests, lower-casing, ordering and   *)
(* the regular expression are computed as Python computes them.            *)
(***************************************************************************)
EXTENDS Integers, Sequences, FiniteSets, TLC

VARIABLES
    \* ---- the run of main() over a file system
    root,          \* str(Path('.').resolve()): the absolute path of the root
    fs,            \* the file system below the root: a set of entries
    pc,            \* where main() stands
    runs,          \* invocations of the tool started so far
    clock,         \* datetime.now(): advances with every invocation
    files,         \* main's local `files`
    tops,          \* main's local `tops`
    includes_map,  \* main's local `includes_map`
    relations,     \* main's local `relations`
    index,         \* main's local `index`
    data,          \* main's local `data`
    out,           \* the content of project_structure.json
    stdout,        \* the lines printed
    status,        \* the exit status of the last invocation
    walkErrors,    \* directories whose scandir raised inside os.walk
    readErrors,    \* files whose read_text raised inside yaml_includes_of
    written,       \* the manifests written, one per invocation that wrote, each
                   \* with its invocation and whether the output file was there
    \* ---- yaml_includes_of applied to one file
    ipath,         \* the file handed to yaml_includes_of
    ires,          \* what it returned
    imatches,      \* the matches INCLUDE_RE.finditer produced
    \* ---- describe applied to one path
    dpath,         \* the path handed to describe
    dres           \* what it returned

mainVars == <<root, fs, pc, runs, clock, files, tops, includes_map, relations,
              index, data, out, stdout, status, walkErrors, readErrors, written>>
incVars  == <<ipath, ires, imatches>>
descVars == <<dpath, dres>>
vars     == <<mainVars, incVars, descVars>>

None == "<none>"

-----------------------------------------------------------------------------
(* Characters and strings.                                                 *)

\* The characters the model uses, in ascending code point order.
Alphabet == "\t\n !#-./0123456789:ABCDEFGHIJKLMNOPQRSTUVWXYZ_abcdefghijklmnopqrstuvwxyz~"

UpperCase == "ABCDEFGHIJKLMNOPQRSTUVWXYZ"
LowerCase == "abcdefghijklmnopqrstuvwxyz"

CharAt(s, i) == SubSeq(s, i, i)

\* The place of character c in string t, 0 when it does not occur.
IndexIn(c, t) ==
    IF \E i \in 1..Len(t) : CharAt(t, i) = c
    THEN CHOOSE i \in 1..Len(t) : CharAt(t, i) = c
    ELSE 0

CharsOf(t) == {CharAt(t, i) : i \in 1..Len(t)}

\* ord(c), up to an order-preserving renumbering.
OrdTable == [c \in CharsOf(Alphabet) |-> IndexIn(c, Alphabet)]

Ord(c) == OrdTable[c]

\* str.lower() of one character.
LowerTable == [c \in CharsOf(UpperCase) |-> CharAt(LowerCase, IndexIn(c, UpperCase))]

LowerChar(c) == IF c \in DOMAIN LowerTable THEN LowerTable[c] ELSE c

RECURSIVE LowerFrom(_, _)
LowerFrom(s, i) ==
    IF i > Len(s) THEN "" ELSE LowerChar(CharAt(s, i)) \o LowerFrom(s, i + 1)

\* str.lower()
Lower(s) == LowerFrom(s, 1)

\* str.endswith(suf)
EndsWith(s, suf) ==
    /\ Len(suf) <= Len(s)
    /\ SubSeq(s, Len(s) - Len(suf) + 1, Len(s)) = suf

\* str.startswith(pre, i - 1): pre occurs in s at place i
StartsAt(s, i, pre) ==
    /\ i + Len(pre) - 1 <= Len(s)
    /\ SubSeq(s, i, i + Len(pre) - 1) = pre

\* `k in s` for strings
Contains(s, k) == \E i \in 1..(Len(s) + 1) : StartsAt(s, i, k)

\* a < b for strings: the first differing character decides, a proper prefix is less.
RECURSIVE StrLessFrom(_, _, _)
StrLessFrom(a, b, i) ==
    IF i > Len(b) THEN FALSE
    ELSE IF i > Len(a) THEN TRUE
    ELSE IF CharAt(a, i) = CharAt(b, i) THEN StrLessFrom(a, b, i + 1)
    ELSE Ord(CharAt(a, i)) < Ord(CharAt(b, i))

StrLess(a, b) == StrLessFrom(a, b, 1)

\* sorted(xs, key=...): a stable insertion sort of <<key, value>> pairs by
\* their string key; equal keys keep their order.
RECURSIVE InsertByKey(_, _)
InsertByKey(x, sorted) ==
    IF sorted = <<>> THEN <<x>>
    ELSE IF StrLess(x[1], Head(sorted)[1])
         THEN <<x>> \o sorted
         ELSE <<Head(sorted)>> \o InsertByKey(x, Tail(sorted))

RECURSIVE SortedByKey(_)
SortedByKey(xs) ==
    IF xs = <<>> THEN <<>>
    ELSE InsertByKey(xs[Len(xs)], SortedByKey(SubSeq(xs, 1, Len(xs) - 1)))

Values(pairs) == [i \in 1..Len(pairs) |-> pairs[i][2]]

\* Some enumeration of a finite set: the order in which a set or a directory
\* is iterated, which the sorts that follow make irrelevant up to ties.
RECURSIVE SeqOfSet(_)
SeqOfSet(S) ==
    IF S = {} THEN <<>>
    ELSE LET x == CHOOSE y \in S : TRUE IN <<x>> \o SeqOfSet(S \ {x})

Range(s) == {s[i] : i \in 1..Len(s)}

-----------------------------------------------------------------------------
(* File system entries.  An entry is a record                              *)
(*   path : the names from the root down to the entry,                     *)
(*   kind : "dir", "file" or "symlink" (a symbolic link whose target is    *)
(*          missing: neither is_dir() nor is_file()),                      *)
(*   ok   : for a directory, whether it can be listed (scandir/iterdir);   *)
(*          for a file, whether read_text succeeds,                        *)
(*   text : a file's content decoded as UTF-8 with errors ignored.         *)

Entry(p, k, o, t) == [path |-> p, kind |-> k, ok |-> o, text |-> t]

\* Path.name
Name(e) == IF e.path = <<>> THEN "" ELSE e.path[Len(e.path)]

\* Path.is_dir(), Path.is_file()
IsDir(e)  == e.kind = "dir"
IsFile(e) == e.kind = "file"

\* Path.suffix: from the last dot of the name, unless that dot is the first
\* or the last character of the name.
Suffix(name) ==
    LET dots == {i \in 1..Len(name) : CharAt(name, i) = "."} IN
    IF dots = {} THEN ""
    ELSE LET i == CHOOSE d \in dots : \A d2 \in dots : d2 <= d IN
         IF i > 1 /\ i < Len(name) THEN SubSeq(name, i, Len(name)) ELSE ""

-----------------------------------------------------------------------------
(* INCLUDE_RE and yaml_includes_of.                                        *)

\* \s of the regular expression, within the model's alphabet.
IsSpace(c) == c \in {" ", "\t", "\n"}

\* The four directive kinds, in the order of the alternation.
IncludeKinds == <<"merge_list", "merge_named", "list", "named">>

\* A variant of LiteralAt compiled without re.IGNORECASE.
LiteralAtCaseSensitive(txt, i, lit) ==
    /\ i + Len(lit) - 1 <= Len(txt)
    /\ SubSeq(txt, i, i + Len(lit) - 1) = lit

\* Whether the literal lit matches txt at place i ignoring case (re.IGNORECASE).
LiteralAt(txt, i, lit) ==
    /\ i + Len(lit) - 1 <= Len(txt)
    /\ Lower(SubSeq(txt, i, i + Len(lit) - 1)) = Lower(lit)

\* Greedy \s* from place i: the first place at or after i that holds no space.
RECURSIVE SkipSpaces(_, _)
SkipSpaces(txt, i) ==
    IF i <= Len(txt) /\ IsSpace(CharAt(txt, i)) THEN SkipSpaces(txt, i + 1) ELSE i

\* Greedy [^\s#]* from place i: the first place at or after i that holds a
\* space or '#', or the end of the text.
IsTargetChar(c) == ~IsSpace(c) /\ c # "#"

RECURSIVE SkipTarget(_, _)
SkipTarget(txt, i) ==
    IF i <= Len(txt) /\ IsTargetChar(CharAt(txt, i)) THEN SkipTarget(txt, i + 1) ELSE i

\* No match: places count from 1, so 0 is never the end of a match.
NoTail  == [end |-> 0, target |-> ""]
NoMatch == [start |-> 0, end |-> 0, target |-> ""]

\* \s+([^\s#]+) from place k: the match's end (exclusive) and group 1, or NoTail.
\* Giving back spaces of \s+ never helps: the character after them is a space.
TailAt(txt, k) ==
    LET m == SkipSpaces(txt, k)
        e == SkipTarget(txt, m)
    IN  IF m > k /\ e > m
        THEN [end |-> e, target |-> SubSeq(txt, m, e - 1)]
        ELSE NoTail

\* The places where the optional group (?:_dir_(?:...))? may end, in the order
\* the backtracking matcher tries them: each alternative that matches, then the
\* empty match of the group.
GroupEnds(txt, k) ==
    LET hit(n) == /\ LiteralAt(txt, k, "_dir_")
                  /\ LiteralAt(txt, k + 5, IncludeKinds[n])
        taken == SelectSeq(<<1, 2, 3, 4>>, hit)
    IN  [n \in 1..Len(taken) |-> k + 5 + Len(IncludeKinds[taken[n]])] \o <<k>>

\* INCLUDE_RE.match(txt, i - 1): [start, end, target] or NoMatch.
MatchAt(txt, i) ==
    IF i > Len(txt) \/ CharAt(txt, i) # "!" THEN NoMatch
    ELSE LET j == SkipSpaces(txt, i + 1) IN
         IF ~LiteralAt(txt, j, "include") THEN NoMatch
         ELSE LET ends  == GroupEnds(txt, j + 7)
                  tails == [n \in 1..Len(ends) |-> TailAt(txt, ends[n])]
                  good  == {n \in 1..Len(ends) : tails[n] # NoTail}
              IN  IF good = {} THEN NoMatch
                  ELSE LET n == CHOOSE g \in good : \A h \in good : g <= h
                       IN  [start |-> i, end |-> tails[n].end,
                            target |-> tails[n].target]

\* INCLUDE_RE.finditer(txt) from place pos: the leftmost match, then the
\* matches after its end.
RECURSIVE FindIter(_, _)
FindIter(txt, pos) ==
    IF pos > Len(txt) THEN <<>>
    ELSE LET m == MatchAt(txt, pos) IN
         IF m = NoMatch THEN FindIter(txt, pos + 1)
         ELSE <<m>> \o FindIter(txt, m.end)

\* sorted(set(xs)) for a sequence of strings.
SortedSet(xs) ==
    LET distinct == SeqOfSet(Range(xs))
    IN  Values(SortedByKey([i \in 1..Len(distinct) |-> <<distinct[i], distinct[i]>>]))

\* path.read_text(encoding='utf-8', errors='ignore'): the text, or None when
\* the read raises.
ReadText(e) == IF e.ok THEN e.text ELSE None

MarkupSuffixes == {".yaml", ".yml"}

\* The matches yaml_includes_of finds in the file (none when it returns early).
MatchesOf(e) ==
    IF ~IsFile(e) THEN <<>>
    ELSE IF Lower(Suffix(Name(e))) \notin MarkupSuffixes THEN <<>>
    ELSE IF ReadText(e) = None THEN <<>>
    ELSE FindIter(ReadText(e), 1)

\* yaml_includes_of(path)
yaml_includes_of(e) ==
    LET ms == MatchesOf(e) IN SortedSet([i \in 1..Len(ms) |-> ms[i].target])

-----------------------------------------------------------------------------
(* The path filter and describe.                                           *)

EXCLUDE_DIRS ==
    {".git", ".github", ".venv", "venv", "__pycache__", ".mypy_cache",
     ".pytest_cache", ".idea", ".vscode", "node_modules", ".cache", ".tox"}

EXCLUDE_FILES_SUFFIXES ==
    {".pyc", ".pyo", ".log", ".tmp", ".swp", ".swo", ".bak", "~"}

\* A variant of is_excluded_dir that consults the wrong denylist.
is_excluded_dir_by_suffixes(name) == name \in EXCLUDE_FILES_SUFFIXES

is_excluded_dir(name) == name \in EXCLUDE_DIRS

\* A variant of is_excluded_file that tests Path.suffix instead of endswith.
is_excluded_file_by_path_suffix(e) == Suffix(Name(e)) \in EXCLUDE_FILES_SUFFIXES

\* A variant of is_excluded_file that also skips the tool's own output file.
is_excluded_file_or_output(e) ==
    \/ \E suf \in EXCLUDE_FILES_SUFFIXES : EndsWith(Name(e), suf)
    \/ Name(e) = "project_structure.json"

is_excluded_file(e) == \E suf \in EXCLUDE_FILES_SUFFIXES : EndsWith(Name(e), suf)

node_type(e) == IF IsDir(e) THEN "directory" ELSE "file"

\* The keys of DESCR_HINTS in their declared order (a dict iterates in
\* insertion order).
HintKeys ==
    <<"configuration.yaml", "customize.yaml", "scripts.yaml", "scenes.yaml",
      "blueprints", "custom_components", "esphome", "includes", "zigbee2mqtt">>

\* DESCR_HINTS[key]; the sentences are rendered in English, one per key.
DESCR_HINTS(key) ==
    CASE key = "configuration.yaml" -> "Main Home Assistant configuration file."
      [] key = "customize.yaml"     -> "Entity customization."
      [] key = "scripts.yaml"       -> "Scripts."
      [] key = "scenes.yaml"        -> "Scenes."
      [] key = "blueprints"         -> "Automation blueprints for HASS."
      [] key = "custom_components"  -> "Custom HASS integrations."
      [] key = "esphome"            -> "ESPHome device configurations."
      [] key = "includes"           -> "Included configuration parts."
      [] key = "zigbee2mqtt"        -> "Zigbee2MQTT configs."

\* '/'.join(names)
RECURSIVE JoinPath(_)
JoinPath(p) ==
    IF p = <<>> THEN ""
    ELSE IF Len(p) = 1 THEN p[1]
    ELSE p[1] \o "/" \o JoinPath(Tail(p))

\* str(p.relative_to(root)).replace('\\', '/')
RelStr(p) == JoinPath(p)

\* str(path) of the absolute path root / p
PathStr(r, p) == IF p = <<>> THEN r ELSE r \o "/" \o JoinPath(p)

\* The suffix-based generic descriptions of describe.
GenericDescription(base) ==
    LET s == Lower(base) IN
    IF EndsWith(s, ".yaml") \/ EndsWith(s, ".yml") THEN "YAML configuration."
    ELSE IF EndsWith(s, ".json") THEN "JSON configuration/data."
    ELSE IF EndsWith(s, ".py") THEN "Python module/script."
    ELSE IF EndsWith(s, ".sh") THEN "Shell script."
    ELSE ""

\* The loop of describe over DESCR_HINTS.items(): the first key, in the
\* table's order, that occurs in the lower-cased path string; 0 when none does.
\* A variant of FirstHintIn in which the last matching key wins.
LastHintIn(str) ==
    LET low  == Lower(str)
        hits == {n \in 1..Len(HintKeys) : Contains(low, Lower(HintKeys[n]))}
    IN  IF hits = {} THEN 0 ELSE CHOOSE n \in hits : \A m \in hits : n >= m

LowerHintKeys == [n \in 1..Len(HintKeys) |-> Lower(HintKeys[n])]

FirstHintIn(str) ==
    LET low  == Lower(str)
        hits == {n \in 1..Len(HintKeys) : Contains(low, LowerHintKeys[n])}
    IN  IF hits = {} THEN 0 ELSE CHOOSE n \in hits : \A m \in hits : n <= m

\* A variant of describe that tries the substring heuristic before the exact name.
describe_substring_first(r, p) ==
    LET base == IF p = <<>> THEN "" ELSE p[Len(p)]
        n    == FirstHintIn(PathStr(r, p))
    IN  IF n # 0 THEN DESCR_HINTS(HintKeys[n])
        ELSE IF base \in Range(HintKeys) THEN DESCR_HINTS(base)
        ELSE GenericDescription(base)

\* describe(path) for the path root r / p
describe(r, p) ==
    LET base == IF p = <<>> THEN "" ELSE p[Len(p)]
        n    == FirstHintIn(PathStr(r, p))
    IN  IF base \in Range(HintKeys) THEN DESCR_HINTS(base)
        ELSE IF n # 0 THEN DESCR_HINTS(HintKeys[n])
        ELSE GenericDescription(base)

-----------------------------------------------------------------------------
(* The file system seen from the root.                                     *)

RootPath == <<>>

\* The entry at path p; the caller knows it exists.
Lookup(F, p) == CHOOSE e \in F : e.path = p

Exists(F, p) == \E e \in F : e.path = p

IsPrefix(p, q) == Len(p) <= Len(q) /\ SubSeq(q, 1, Len(p)) = p

\* The entries directly inside directory p.
Children(F, p) == {e \in F : Len(e.path) = Len(p) + 1 /\ IsPrefix(p, e.path)}

\* os.scandir(p) / Path.iterdir(): the children in the directory's own order.
ScanDir(F, p) == SeqOfSet(Children(F, p))

\* Whether listing directory p succeeds; otherwise scandir raises OSError.
Listable(F, p) == Lookup(F, p).ok

\* os.walk(root), top down, with list_all_files' pruning of dirnames and its
\* filter on filenames: the files appended, directory by directory.  os.walk
\* is called without onerror, so a directory whose scandir raises is skipped
\* silently.  An entry is a directory of the walk when is_dir() holds, so a
\* dangling symbolic link counts among the file names.  todo holds the
\* directories still to visit, the next one first.
RECURSIVE WalkFiles(_, _)
WalkFiles(F, todo) ==
    IF todo = <<>> THEN <<>>
    ELSE LET d == Head(todo) IN
         IF ~Listable(F, d) THEN WalkFiles(F, Tail(todo))
         ELSE LET entries   == ScanDir(F, d)
                  dirnames  == SelectSeq(entries, LAMBDA e :
                                   IsDir(e) /\ ~is_excluded_dir(Name(e)))
                  filenames == SelectSeq(entries, LAMBDA e :
                                   ~IsDir(e) /\ ~is_excluded_file(e))
              IN  filenames
                    \o WalkFiles(F, [i \in 1..Len(dirnames) |-> dirnames[i].path]
                                      \o Tail(todo))

\* The directories os.walk visits, in the same traversal.
RECURSIVE WalkVisited(_, _)
WalkVisited(F, todo) ==
    IF todo = <<>> THEN {}
    ELSE LET d == Head(todo) IN
         IF ~Listable(F, d) THEN {d} \cup WalkVisited(F, Tail(todo))
         ELSE LET entries  == ScanDir(F, d)
                  dirnames == SelectSeq(entries, LAMBDA e :
                                  IsDir(e) /\ ~is_excluded_dir(Name(e)))
              IN  {d} \cup WalkVisited(F, [i \in 1..Len(dirnames) |-> dirnames[i].path]
                                            \o Tail(todo))

\* The OSErrors os.walk swallows: the visited directories that cannot be listed.
WalkSwallowed(F) == {d \in WalkVisited(F, <<RootPath>>) : ~Listable(F, d)}

\* list_all_files(root)
list_all_files(F, r) ==
    LET found == WalkFiles(F, <<RootPath>>)
    IN  Values(SortedByKey([i \in 1..Len(found) |->
                               <<Lower(PathStr(r, found[i].path)), found[i]>>]))

\* A variant of top_level_entries that applies the file filter as well.
top_level_entries_without_denied_files(F) ==
    LET kept == SelectSeq(ScanDir(F, RootPath), LAMBDA e :
                    ~is_excluded_dir(Name(e)) /\ ~(~IsDir(e) /\ is_excluded_file(e)))
    IN  Values(SortedByKey([i \in 1..Len(kept) |-> <<Lower(Name(kept[i])), kept[i]>>]))

\* top_level_entries(root), when root.iterdir() does not raise
top_level_entries(F) ==
    LET kept == SelectSeq(ScanDir(F, RootPath), LAMBDA e : ~is_excluded_dir(Name(e)))
    IN  Values(SortedByKey([i \in 1..Len(kept) |-> <<Lower(Name(kept[i])), kept[i]>>]))

\* The value build_root_map and main's list comprehension give one path:
\* its type, and its description when describe returns a non-empty one.
Info(r, e) ==
    IF describe(r, e.path) = ""
    THEN [type |-> node_type(e)]
    ELSE [type |-> node_type(e), description |-> describe(r, e.path)]

\* build_root_map(entries): a dict keyed by name.
build_root_map(r, entries) ==
    [n \in {Name(entries[i]) : i \in 1..Len(entries)} |->
        Info(r, CHOOSE e \in Range(entries) : Name(e) = n)]

\* The `files` list of the manifest.
FileItem(r, e) ==
    IF describe(r, e.path) = ""
    THEN [path |-> RelStr(e.path), type |-> node_type(e)]
    ELSE [path |-> RelStr(e.path), type |-> node_type(e),
          description |-> describe(r, e.path)]

\* A variant of collect_yaml_includes without the `if incs` guard.
collect_yaml_includes_keeping_empty(fileSeq) ==
    [k \in {RelStr(e.path) : e \in Range(fileSeq)} |->
        yaml_includes_of(CHOOSE e \in Range(fileSeq) : RelStr(e.path) = k)]

\* collect_yaml_includes(files, root): a dict keyed by relative path.
collect_yaml_includes(fileSeq) ==
    LET withIncs == {e \in Range(fileSeq) : yaml_includes_of(e) # <<>>}
    IN  [k \in {RelStr(e.path) : e \in withIncs} |->
            yaml_includes_of(CHOOSE e \in withIncs : RelStr(e.path) = k)]

\* The files of the list whose read_text raises inside yaml_includes_of.
ReadFailures(fileSeq) ==
    {e \in Range(fileSeq) :
        /\ IsFile(e)
        /\ Lower(Suffix(Name(e))) \in MarkupSuffixes
        /\ ReadText(e) = None}

\* make_relations(include_map)
make_relations(include_map) ==
    [k \in DOMAIN include_map |-> SortedSet(include_map[k])]

\* The directories index_by_glob looks for.
IndexDirs == {"includes", "esphome", "zigbee2mqtt", "blueprints", "custom_components"}

\* Those that exist and are directories.
IndexedDirs(F) == {d \in IndexDirs : Exists(F, <<d>>) /\ IsDir(Lookup(F, <<d>>))}

\* Whether some dp.iterdir() of index_by_glob raises.
IndexRaises(F) == \E d \in IndexedDirs(F) : ~Listable(F, <<d>>)

\* index_by_glob(root), when no iterdir raises
index_by_glob(F) ==
    [d \in IndexedDirs(F) |->
        LET fileSeq == SelectSeq(ScanDir(F, <<d>>), IsFile)
        IN  Values(SortedByKey([i \in 1..Len(fileSeq) |->
                                   <<Lower(Name(fileSeq[i])), Name(fileSeq[i])>>]))]

-----------------------------------------------------------------------------
(* Bounds and the file systems the runs start from.                        *)

MaxEntries == 3     \* features of the initial file system
MaxRuns == 2        \* invocations of the tool
MaxTokens == 3      \* fragments a markup text is made of
MaxDepth == 3       \* names in a path handed to describe

OutName == "project_structure.json"
OutPath == <<OutName>>

TextNone == "k: v\n"
TextOne  == "a: !include b.yaml\n"
TextTwo  == "x: !include_dir_named d/\ny: !include b.yaml\nz: !INCLUDE b.yaml\n"

\* Two places the repository may be checked out at: str(root).
PlainRoot == "/srv/ha"
HintRoot  == "/srv/esphome"

\* What an initial file system may hold.  The entry at RootPath says that the
\* root itself cannot be listed.
Candidates ==
    { Entry(RootPath, "dir", FALSE, ""),
      Entry(<<"configuration.yaml">>, "file", TRUE, TextTwo),
      Entry(<<"configuration.yaml">>, "file", FALSE, TextOne),
      Entry(<<"debug.log">>, "file", TRUE, ""),
      Entry(<<"Notes.YML">>, "file", TRUE, TextOne),
      Entry(<<"stale.yaml">>, "symlink", FALSE, ""),
      Entry(<<".git">>, "dir", TRUE, ""),
      Entry(<<".git">>, "file", TRUE, "gitdir: x\n"),
      Entry(<<".git", "hooks.yaml">>, "file", TRUE, TextOne),
      Entry(<<"includes">>, "dir", TRUE, ""),
      Entry(<<"includes">>, "dir", FALSE, ""),
      Entry(<<"includes", "scripts.yaml">>, "file", TRUE, TextOne),
      Entry(<<"includes", "x.yml">>, "file", TRUE, TextNone),
      Entry(<<"includes", "x.yml~">>, "file", TRUE, TextOne),
      Entry(<<"includes", "node_modules">>, "dir", TRUE, ""),
      Entry(<<"includes", "node_modules", "m.yaml">>, "file", TRUE, TextOne),
      Entry(<<"private">>, "dir", FALSE, ""),
      Entry(<<"private", "s.yaml">>, "file", TRUE, TextOne),
      Entry(OutPath, "file", TRUE, ""),
      Entry(OutPath, "dir", TRUE, "") }

\* The candidates numbered, and the choices of at most k of them.
CandidateSeq == SeqOfSet(Candidates)

RECURSIVE ChoicesUpTo(_, _)
ChoicesUpTo(n, k) ==
    IF k = 0 THEN {{}}
    ELSE LET smaller == ChoicesUpTo(n, k - 1)
         IN  smaller \cup {S \cup {x} : S \in smaller, x \in 1..n}

EntriesOf(choice) == {CandidateSeq[i] : i \in choice}

\* A choice of candidates is a file system when no path occurs twice and
\* every entry lies in a directory of the choice.
WellFormed(E) ==
    /\ \A e1, e2 \in E : e1.path = e2.path => e1 = e2
    /\ \A e \in E : Len(e.path) > 1 =>
          \E d \in E : d.kind = "dir" /\ d.path = SubSeq(e.path, 1, Len(e.path) - 1)

\* The file system of a choice: its entries, and the root, listable unless
\* the choice says otherwise.
FileSystemOf(E) ==
    IF Exists(E, RootPath) THEN E ELSE E \cup {Entry(RootPath, "dir", TRUE, "")}

-----------------------------------------------------------------------------
(* main().                                                                 *)

PROJECT_NAME == "Home Assistant Configuration"
REPO_URL     == ""
Confirmation == "project_structure.json created/updated"

NoData == [generated |-> 0]

\* The exit status while the process has not exited.
NotExited == -1

\* The variables of the other two specifications, unused by main.
IncIdle  == ipath = Entry(<<>>, "file", FALSE, "") /\ ires = <<>> /\ imatches = <<>>
DescIdle == dpath = [root |-> "", path |-> <<>>] /\ dres = None

Init ==
    /\ \E choice \in ChoicesUpTo(Len(CandidateSeq), MaxEntries) :
          /\ WellFormed(EntriesOf(choice))
          /\ fs = FileSystemOf(EntriesOf(choice))
    /\ root \in {PlainRoot, HintRoot}
    /\ pc = "idle"
    /\ runs = 0
    /\ clock = 0
    /\ files = <<>>
    /\ tops = <<>>
    /\ includes_map = <<>>
    /\ relations = <<>>
    /\ index = <<>>
    /\ data = NoData
    /\ out = [state |-> IF Exists(fs, OutPath) /\ IsFile(Lookup(fs, OutPath))
                         THEN "old" ELSE "absent",
               content |-> NoData]
    /\ stdout = <<>>
    /\ status = NotExited
    /\ walkErrors = {}
    /\ readErrors = {}
    /\ written = <<>>
    /\ IncIdle
    /\ DescIdle

\* The tool is started (lines 151-154): a new process, with fresh locals.
Invoke ==
    /\ pc \in {"idle", "done", "aborted"}
    /\ runs < MaxRuns
    /\ runs' = runs + 1
    /\ clock' = clock + 1
    /\ pc' = "list_all_files"
    /\ files' = <<>>
    /\ tops' = <<>>
    /\ includes_map' = <<>>
    /\ relations' = <<>>
    /\ index' = <<>>
    /\ data' = NoData
    /\ status' = NotExited
    /\ walkErrors' = {}
    /\ readErrors' = {}
    /\ UNCHANGED <<root, fs, out, stdout, written, incVars, descVars>>

\* An uncaught exception: the traceback ends the process with a non-zero status.
Raise ==
    /\ pc' = "aborted"
    /\ status' = 1

\* files = list_all_files(root)   (line 156)
ListAllFiles ==
    /\ pc = "list_all_files"
    /\ files' = list_all_files(fs, root)
    /\ walkErrors' = WalkSwallowed(fs)
    /\ pc' = "top_level_entries"
    /\ UNCHANGED <<root, fs, runs, clock, tops, includes_map, relations, index, data,
                   out, stdout, status, readErrors, written, incVars, descVars>>

\* tops = top_level_entries(root)   (line 157)
TopLevelEntries ==
    /\ pc = "top_level_entries"
    /\ \/ /\ Listable(fs, RootPath)
          /\ tops' = top_level_entries(fs)
          /\ pc' = "collect_yaml_includes"
          /\ UNCHANGED status
       \/ /\ ~Listable(fs, RootPath)
          /\ Raise
          /\ UNCHANGED tops
    /\ UNCHANGED <<root, fs, runs, clock, files, includes_map, relations, index, data,
                   out, stdout, walkErrors, readErrors, written, incVars, descVars>>

\* includes_map = collect_yaml_includes(files, root)   (line 158)
CollectYamlIncludes ==
    /\ pc = "collect_yaml_includes"
    /\ includes_map' = collect_yaml_includes(files)
    /\ readErrors' = ReadFailures(files)
    /\ pc' = "make_relations"
    /\ UNCHANGED <<root, fs, runs, clock, files, tops, relations, index, data,
                   out, stdout, status, walkErrors, written, incVars, descVars>>

\* relations = make_relations(includes_map)   (line 159)
MakeRelations ==
    /\ pc = "make_relations"
    /\ relations' = make_relations(includes_map)
    /\ pc' = "index_by_glob"
    /\ UNCHANGED <<root, fs, runs, clock, files, tops, includes_map, index, data,
                   out, stdout, status, walkErrors, readErrors, written, incVars, descVars>>

\* index = index_by_glob(root)   (line 160)
IndexByGlob ==
    /\ pc = "index_by_glob"
    /\ \/ /\ ~IndexRaises(fs)
          /\ index' = index_by_glob(fs)
          /\ pc' = "build_data"
          /\ UNCHANGED status
       \/ /\ IndexRaises(fs)
          /\ Raise
          /\ UNCHANGED index
    /\ UNCHANGED <<root, fs, runs, clock, files, tops, includes_map, relations, data,
                   out, stdout, walkErrors, readErrors, written, incVars, descVars>>

\* data = {...}   (lines 162-188)
Manifest ==
    [project_name  |-> PROJECT_NAME,
     repository    |-> REPO_URL,
     generated     |-> clock,
     root          |-> build_root_map(root, tops),
     files         |-> [i \in 1..Len(files) |-> FileItem(root, files[i])],
     files_index   |-> index,
     yaml_includes |-> includes_map,
     relations     |-> relations]

BuildData ==
    /\ pc = "build_data"
    /\ data' = Manifest
    /\ pc' = "write_text"
    /\ UNCHANGED <<root, fs, runs, clock, files, tops, includes_map, relations, index,
                   out, stdout, status, walkErrors, readErrors, written, incVars, descVars>>

\* out.write_text(json.dumps(data, ...))   (lines 190-191).  open() creates or
\* truncates the file, or raises when the path is a directory; the write that
\* follows may fail (disk full), leaving a truncated file.
OutFile == Entry(OutPath, "file", TRUE, "")

WriteText ==
    /\ pc = "write_text"
    /\ \/ /\ Exists(fs, OutPath) /\ IsDir(Lookup(fs, OutPath))
          /\ Raise
          /\ UNCHANGED <<fs, out, written>>
       \/ /\ ~(Exists(fs, OutPath) /\ IsDir(Lookup(fs, OutPath)))
          /\ fs' = {e \in fs : e.path # OutPath} \cup {OutFile}
          /\ \/ /\ out' = [state |-> "written", content |-> data]
                /\ written' = Append(written, [run |-> runs,
                                               had_output |-> Exists(fs, OutPath),
                                               manifest |-> data])
                /\ pc' = "print"
                /\ UNCHANGED status
             \/ /\ out' = [state |-> "truncated", content |-> NoData]
                /\ Raise
                /\ UNCHANGED written
    /\ UNCHANGED <<root, runs, clock, files, tops, includes_map, relations, index, data,
                   stdout, walkErrors, readErrors, incVars, descVars>>

\* print(...); return 0   (lines 192-193)
PrintDone ==
    /\ pc = "print"
    /\ stdout' = Append(stdout, Confirmation)
    /\ status' = 0
    /\ pc' = "done"
    /\ UNCHANGED <<root, fs, runs, clock, files, tops, includes_map, relations, index,
                   data, out, written, walkErrors, readErrors, incVars, descVars>>

Next ==
    \/ Invoke
    \/ ListAllFiles
    \/ TopLevelEntries
    \/ CollectYamlIncludes
    \/ MakeRelations
    \/ IndexByGlob
    \/ BuildData
    \/ WriteText
    \/ PrintDone

Spec == Init /\ [][Next]_vars

-----------------------------------------------------------------------------
(* yaml_includes_of applied to one file.                                   *)

\* The example of the documentation.
ExampleText == "!include sensors.yaml\n!include_dir_merge_list automations/\n"

\* What the texts are made of.
Fragments ==
    {"!include", "! Include_dir_merge_list", "!INCLUDE_DIR_NAMED b/",
     "!include a.yaml", "_dir_list", " ", "\n", "#", "b/", "a.yaml"}

RECURSIVE TextsUpTo(_)
TextsUpTo(k) ==
    IF k = 0 THEN {""}
    ELSE LET shorter == TextsUpTo(k - 1)
         IN  shorter \cup {t \o f : t \in shorter, f \in Fragments}

IncNames == {"a.yaml", "B.YML", "c.txt", ".yaml", "d.yaml.bak"}

IncEntries ==
    {Entry(<<"a.yaml">>, "file", TRUE, t) : t \in TextsUpTo(MaxTokens) \cup {ExampleText}}
      \cup
    {Entry(<<n>>, k, o, t) :
        n \in IncNames, k \in {"file", "dir", "symlink"}, o \in BOOLEAN,
        t \in {TextNone, TextTwo, ExampleText}}

\* The variables of main, unused here.
MainIdle ==
    /\ root = PlainRoot
    /\ fs = {}
    /\ runs = 0
    /\ clock = 0
    /\ files = <<>>
    /\ tops = <<>>
    /\ includes_map = <<>>
    /\ relations = <<>>
    /\ index = <<>>
    /\ data = NoData
    /\ out = [state |-> "absent", content |-> NoData]
    /\ stdout = <<>>
    /\ status = NotExited
    /\ walkErrors = {}
    /\ readErrors = {}
    /\ written = <<>>

InitInc ==
    /\ ipath \in IncEntries
    /\ ires = <<>>
    /\ imatches = <<>>
    /\ pc = "ready"
    /\ MainIdle
    /\ DescIdle

\* incs = yaml_includes_of(p)
ApplyIncludes ==
    /\ pc = "ready"
    /\ ires' = yaml_includes_of(ipath)
    /\ imatches' = MatchesOf(ipath)
    /\ pc' = "returned"
    /\ UNCHANGED <<root, fs, runs, clock, files, tops, includes_map, relations, index,
                   data, out, stdout, status, walkErrors, readErrors, written,
                   ipath, descVars>>

NextInc == ApplyIncludes

SpecInc == InitInc /\ [][NextInc]_vars

-----------------------------------------------------------------------------
(* describe applied to one path.                                           *)

DescNames ==
    {"configuration.yaml", "scripts.yaml", "includes", "esphome", "blueprints",
     "Includes", "x.yml", "data.json", "notes"}

RECURSIVE PathsUpTo(_)
PathsUpTo(k) ==
    IF k = 1 THEN {<<n>> : n \in DescNames}
    ELSE LET shorter == PathsUpTo(k - 1)
         IN  shorter \cup {Append(p, n) : p \in shorter, n \in DescNames}

InitDesc ==
    /\ dpath \in [root : {PlainRoot, HintRoot}, path : PathsUpTo(MaxDepth)]
    /\ dres = None
    /\ pc = "ready"
    /\ MainIdle
    /\ IncIdle

\* desc = describe(p)
ApplyDescribe ==
    /\ pc = "ready"
    /\ dres' = describe(dpath.root, dpath.path)
    /\ pc' = "returned"
    /\ UNCHANGED <<root, fs, runs, clock, files, tops, includes_map, relations, index,
                   data, out, stdout, status, walkErrors, readErrors, written,
                   dpath, incVars>>

NextDesc == ApplyDescribe

SpecDesc == InitDesc /\ [][NextDesc]_vars

-----------------------------------------------------------------------------
(* Properties of yaml_includes_of (SpecInc).                               *)

\* The five directive words, as the documentation lists them.
DirectiveWords ==
    {"include", "include_dir_merge_list", "include_dir_merge_named",
     "include_dir_list", "include_dir_named"}

\* An include directive with its target occupies places i .. e - 1 of txt:
\* the sigil, optional spaces, one of the five words in any case, at least
\* one space, and then the target, a longest run of characters that are
\* neither spaces nor '#'.
IsIncludeMatch(txt, i, e) ==
    /\ i <= Len(txt)
    /\ CharAt(txt, i) = "!"
    /\ e - 1 <= Len(txt)
    /\ e <= Len(txt) => ~IsTargetChar(CharAt(txt, e))
    /\ \E a \in (i + 1)..(e - 1) :
          /\ \A x \in (i + 1)..(a - 1) : IsSpace(CharAt(txt, x))
          /\ \E w \in DirectiveWords :
                /\ a + Len(w) - 1 <= Len(txt)
                /\ Lower(SubSeq(txt, a, a + Len(w) - 1)) = w
                /\ \E c \in (a + Len(w) + 1)..(e - 1) :
                      /\ \A x \in (a + Len(w))..(c - 1) : IsSpace(CharAt(txt, x))
                      /\ \A x \in c..(e - 1) : IsTargetChar(CharAt(txt, x))

HasIncludeMatch(txt) ==
    \E i \in 1..Len(txt) : \E e \in (i + 1)..(Len(txt) + 1) : IsIncludeMatch(txt, i, e)

\* The file handed to yaml_includes_of is a markup file whose text is read.
ReadableMarkup(e) ==
    /\ e.kind = "file"
    /\ \E suf \in MarkupSuffixes :
          /\ EndsWith(Lower(Name(e)), suf)
          /\ Len(Name(e)) > Len(suf)
    /\ e.ok

\* The place right after the directive word of the directive that starts at i.
RECURSIVE SkipWord(_, _)
SkipWord(txt, i) ==
    IF i <= Len(txt) /\ ~IsSpace(CharAt(txt, i)) THEN SkipWord(txt, i + 1) ELSE i

DirectiveEnd(txt, i) == SkipWord(txt, SkipSpaces(txt, i + 1))

\* Nothing but blanks follows place k on its line, up to the end of the line,
\* the end of the text or a comment.
RECURSIVE SkipBlanks(_, _)
SkipBlanks(txt, k) ==
    IF k <= Len(txt) /\ CharAt(txt, k) \in {" ", "\t"} THEN SkipBlanks(txt, k + 1) ELSE k

NoTargetAfter(txt, k) ==
    LET h == SkipBlanks(txt, k)
    IN  h > Len(txt) \/ CharAt(txt, h) \in {"\n", "#"}

\* C3: a directive with no target token after it on its line (the line ends,
\* or only a comment follows) contributes no entry to the list returned: no
\* match of the file starts at such a directive.
C3_NoTargetNoEntry ==
    pc = "returned" =>
        \A n \in 1..Len(imatches) :
            ~NoTargetAfter(ipath.text, DirectiveEnd(ipath.text, imatches[n].start))

\* C6: for a markup file whose text is read, the list returned is strictly
\* ascending in string order (sorted, without duplicates) and holds exactly
\* the targets of the non-overlapping directive matches of the text, scanned
\* from the left, each recorded as written; the documentation's example
\* yields ["automations/", "sensors.yaml"].
C6_SortedDistinctTargets ==
    (pc = "returned" /\ ReadableMarkup(ipath)) =>
        LET txt == ipath.text IN
        /\ \A n \in 1..(Len(ires) - 1) : StrLess(ires[n], ires[n + 1])
        /\ Range(ires) = {imatches[n].target : n \in 1..Len(imatches)}
        /\ \A n \in 1..Len(imatches) :
              /\ IsIncludeMatch(txt, imatches[n].start, imatches[n].end)
              /\ \E c \in imatches[n].start..imatches[n].end :
                    /\ imatches[n].target = SubSeq(txt, c, imatches[n].end - 1)
                    /\ IsSpace(CharAt(txt, c - 1))
              /\ n > 1 => imatches[n - 1].end <= imatches[n].start
        /\ \A i \in 1..Len(txt) :
              (\E e \in (i + 1)..(Len(txt) + 1) : IsIncludeMatch(txt, i, e)) =>
                  \E n \in 1..Len(imatches) :
                      imatches[n].start <= i /\ i < imatches[n].end
        /\ txt = ExampleText => ires = <<"automations/", "sensors.yaml">>

\* Two directives, the first in upper case, whose targets come back in the
\* other order.
C6_Witness ==
    /\ pc = "returned"
    /\ ReadableMarkup(ipath)
    /\ Len(imatches) = 2
    /\ Len(ires) = 2
    /\ ires[1] = imatches[2].target
    /\ ires[2] = imatches[1].target
    /\ StartsAt(ipath.text, 1, "!INCLUDE_DIR_NAMED")

-----------------------------------------------------------------------------
(* Properties of describe (SpecDesc).                                      *)

BaseName(p) == p[Len(p)]

\* C8: a path whose last name is exactly a key of the hint table gets that
\* key's sentence, whatever other keys occur in the path.
C8_ExactNameFirst ==
    (pc = "returned" /\ BaseName(dpath.path) \in Range(HintKeys)) =>
        dres = DESCR_HINTS(BaseName(dpath.path))

\* A name that is a key, below a directory named by a key declared earlier.
C8_Witness ==
    /\ pc = "returned"
    /\ dpath.path = <<"esphome", "x.yml", "includes">>
    /\ dpath.root = HintRoot
    /\ dres = DESCR_HINTS("includes")

-----------------------------------------------------------------------------
(* Properties of a run (Spec).  At pc = "write_text" the manifest `data` is *)
(* assembled from the file system as it stands, and it is what the run     *)
(* writes.                                                                 *)

Assembled == pc = "write_text"

PathsOf(m) == {m.files[i].path : i \in 1..Len(m.files)}

\* The relative path string of a file lies beneath the directory dirStr.
IsBeneath(pathStr, dirStr) == StartsAt(pathStr, 1, dirStr \o "/")

DeniedSuffix(name) ==
    \E suf \in {".pyc", ".pyo", ".log", ".tmp", ".swp", ".swo", ".bak", "~"} :
        EndsWith(name, suf)

DeniedDirName(name) ==
    name \in {".git", ".github", ".venv", "venv", "__pycache__", ".mypy_cache",
              ".pytest_cache", ".idea", ".vscode", "node_modules", ".cache", ".tox"}

\* C1: no file beneath a directory with a denylisted name, at any depth, is
\* listed in `files`, and the directory's name is no key of `root`.
C1_DeniedDirsAbsent ==
    Assembled =>
        \A d \in fs :
            (d.kind = "dir" /\ d.path # RootPath /\ DeniedDirName(Name(d))) =>
                /\ \A p \in PathsOf(data) : ~IsBeneath(p, RelStr(d.path))
                /\ Name(d) \notin DOMAIN data.root

\* A denylisted directory two levels down, holding a file, and a manifest
\* that lists something.
C1_Witness ==
    /\ Assembled
    /\ \E d, f \in fs :
          /\ d.kind = "dir" /\ Len(d.path) = 2 /\ DeniedDirName(Name(d))
          /\ f.kind = "file" /\ Len(f.path) = 3 /\ IsPrefix(d.path, f.path)
    /\ data.files # <<>>

\* What the walk reaches: everything whose directories, from the root down,
\* can be listed and bear no denylisted name.
Reached(e) ==
    \A n \in 0..(Len(e.path) - 1) :
        LET d == Lookup(fs, SubSeq(e.path, 1, n)) IN
        /\ d.kind = "dir"
        /\ d.ok
        /\ n > 0 => ~DeniedDirName(Name(d))

\* C5: a file whose name ends with a denylisted suffix is not listed in
\* `files`, wherever it lies; every other file the walk reaches is listed
\* exactly once.
C5_DeniedSuffixesAbsent ==
    Assembled =>
        \A e \in fs : e.kind # "dir" =>
            /\ DeniedSuffix(Name(e)) => RelStr(e.path) \notin PathsOf(data)
            /\ (Reached(e) /\ ~DeniedSuffix(Name(e))) =>
                  Cardinality({i \in 1..Len(data.files) :
                                  data.files[i].path = RelStr(e.path)}) = 1

\* A backup file next to a listed file, inside a directory that is walked.
C5_Witness ==
    /\ Assembled
    /\ \E e, f \in fs :
          /\ e.kind = "file" /\ Len(e.path) = 2 /\ EndsWith(Name(e), "~") /\ Reached(e)
          /\ f.kind = "file" /\ Len(f.path) = 2 /\ RelStr(f.path) \in PathsOf(data)

\* The immediate children of the root.
TopLevel == {e \in fs : Len(e.path) = 1}

\* C4 as stated: the keys of `root` are the names of the immediate children
\* that the path filter does not exclude (not a directory with a denylisted
\* name, not a file with a denylisted suffix), so a top-level file is a key
\* exactly when it is listed in `files`.
C4_Original ==
    Assembled =>
        /\ DOMAIN data.root =
              {Name(e) : e \in {t \in TopLevel :
                  /\ ~(t.kind = "dir" /\ DeniedDirName(Name(t)))
                  /\ ~(t.kind # "dir" /\ DeniedSuffix(Name(t)))}}
        /\ \A t \in TopLevel : t.kind # "dir" =>
              (Name(t) \in DOMAIN data.root <=> RelStr(t.path) \in PathsOf(data))

\* C4 amended: the keys of `root` are the names of the immediate children
\* whose name is not in the directory denylist, whatever their type; the
\* suffix denylist is not applied.  So a top-level file with a denylisted
\* suffix is a key though not listed in `files`, and a top-level file that
\* bears a denylisted directory name is listed in `files` and is no key.
C4_RootKeys ==
    Assembled =>
        /\ DOMAIN data.root = {Name(e) : e \in {t \in TopLevel : ~DeniedDirName(Name(t))}}
        /\ \A t \in TopLevel : (t.kind # "dir" /\ DeniedSuffix(Name(t))) =>
              /\ Name(t) \in DOMAIN data.root
              /\ RelStr(t.path) \notin PathsOf(data)
        /\ \A t \in TopLevel :
              (t.kind # "dir" /\ DeniedDirName(Name(t)) /\ ~DeniedSuffix(Name(t))) =>
                  /\ Name(t) \notin DOMAIN data.root
                  /\ RelStr(t.path) \in PathsOf(data)

\* A log file and a file named .git at the top level.
C4_Witness ==
    /\ Assembled
    /\ \E t, u \in TopLevel :
          /\ t.kind = "file" /\ DeniedSuffix(Name(t)) /\ Name(t) \in DOMAIN data.root
          /\ u.kind = "file" /\ DeniedDirName(Name(u)) /\ RelStr(u.path) \in PathsOf(data)

\* C7: `relations` and `yaml_includes` have the same keys and equal lists; a
\* listed file is a key exactly when it is a markup file in whose text, as
\* read, at least one include directive matches; no list is empty.
C7_IncludesAndRelations ==
    Assembled =>
        /\ DOMAIN data.relations = DOMAIN data.yaml_includes
        /\ \A k \in DOMAIN data.yaml_includes :
              /\ data.relations[k] = data.yaml_includes[k]
              /\ data.yaml_includes[k] # <<>>
        /\ DOMAIN data.yaml_includes \subseteq PathsOf(data)
        /\ \A e \in fs : RelStr(e.path) \in PathsOf(data) =>
              (RelStr(e.path) \in DOMAIN data.yaml_includes
                  <=> (ReadableMarkup(e) /\ HasIncludeMatch(e.text)))

\* A markup file with includes next to a markup file without any.
C7_Witness ==
    /\ Assembled
    /\ \E e, f \in fs :
          /\ RelStr(e.path) \in DOMAIN data.yaml_includes
          /\ Len(data.relations[RelStr(e.path)]) >= 1
          /\ ReadableMarkup(f)
          /\ RelStr(f.path) \in PathsOf(data) \ DOMAIN data.yaml_includes


\* The keys of the hint table that name directories.
HintDirs == {"blueprints", "custom_components", "esphome", "includes", "zigbee2mqtt"}

\* The place of a key in the hint table.
HintPlace(key) == CHOOSE n \in 1..Len(HintKeys) : HintKeys[n] = key

\* The listed files that lie beneath a directory named d, at any depth.
ListedBeneath(d) ==
    {e \in fs : /\ RelStr(e.path) \in PathsOf(data)
                /\ \E n \in 1..(Len(e.path) - 1) : e.path[n] = d}

\* The description the manifest gives the file, "" when it gives none.
DescriptionOf(e) ==
    LET item == CHOOSE x \in Range(data.files) : x.path = RelStr(e.path)
    IN  IF "description" \in DOMAIN item THEN item.description ELSE ""

\* A key declared before d in the table occurs in the absolute path string.
EarlierKeyIn(e, d) ==
    \E n \in 1..(HintPlace(d) - 1) :
        Contains(Lower(PathStr(root, e.path)), Lower(HintKeys[n]))

\* C9 as stated: every file nested beneath a directory named by a key of the
\* hint table gets that directory key's description in the manifest.
C9_Original ==
    Assembled =>
        \A d \in HintDirs : \A e \in ListedBeneath(d) :
            DescriptionOf(e) = DESCR_HINTS(d)

\* C9 amended: such a file gets a description of the hint table: that of its
\* own name when the name is exactly a key; otherwise that of the key
\* declared first in the table among those occurring, case-insensitively, in
\* its absolute path string (the root's path included), which is the
\* directory's key unless a key declared earlier occurs there too.
C9_HintBeneathDirectory ==
    Assembled =>
        \A d \in HintDirs : \A e \in ListedBeneath(d) :
            /\ DescriptionOf(e) \in {DESCR_HINTS(k) : k \in Range(HintKeys)}
            /\ Name(e) \in Range(HintKeys) => DescriptionOf(e) = DESCR_HINTS(Name(e))
            /\ (Name(e) \notin Range(HintKeys) /\ ~EarlierKeyIn(e, d)) =>
                  DescriptionOf(e) = DESCR_HINTS(d)
            /\ (Name(e) \notin Range(HintKeys) /\ EarlierKeyIn(e, d)) =>
                  \E n \in 1..(HintPlace(d) - 1) :
                      /\ DescriptionOf(e) = DESCR_HINTS(HintKeys[n])
                      /\ Contains(Lower(PathStr(root, e.path)), Lower(HintKeys[n]))
                      /\ \A m \in 1..(n - 1) :
                            ~Contains(Lower(PathStr(root, e.path)), Lower(HintKeys[m]))

\* A file beneath includes/, not named by a key and with no earlier key in
\* its path, that gets the directory's description.
C9_Witness ==
    /\ Assembled
    /\ \E e \in ListedBeneath("includes") :
          /\ Name(e) \notin Range(HintKeys)
          /\ ~EarlierKeyIn(e, "includes")
          /\ DescriptionOf(e) = DESCR_HINTS("includes")

SameButGenerated(m1, m2) ==
    /\ m1.project_name = m2.project_name
    /\ m1.repository = m2.repository
    /\ m1.root = m2.root
    /\ m1.files = m2.files
    /\ m1.files_index = m2.files_index
    /\ m1.yaml_includes = m2.yaml_includes
    /\ m1.relations = m2.relations

\* C2 as stated: two runs in succession, the file system changed by the tool
\* alone, write manifests that agree in every field but `generated`,
\* whatever the starting state.
C2_Original ==
    \A n \in 1..(Len(written) - 1) :
        SameButGenerated(written[n].manifest, written[n + 1].manifest)

\* C2 amended: they agree in every field but `generated` when
\* project_structure.json is in the root before the first of the two runs;
\* when it is not, that run creates it, and the second manifest has it as one
\* more entry of `files` and one more key of `root`, the other fields but
\* `generated` being equal.
C2_RepeatableOnceOutputExists ==
    \A n \in 1..(Len(written) - 1) :
        LET m1 == written[n].manifest
            m2 == written[n + 1].manifest
        IN  IF written[n].had_output
            THEN SameButGenerated(m1, m2)
            ELSE /\ OutName \notin PathsOf(m1) \cup DOMAIN m1.root
                 /\ PathsOf(m2) = PathsOf(m1) \cup {OutName}
                 /\ Len(m2.files) = Len(m1.files) + 1
                 /\ DOMAIN m2.root = DOMAIN m1.root \cup {OutName}
                 /\ \A k \in DOMAIN m1.root : m2.root[k] = m1.root[k]
                 /\ \A x \in Range(m1.files) : x \in Range(m2.files)
                 /\ m1.project_name = m2.project_name
                 /\ m1.repository = m2.repository
                 /\ m1.files_index = m2.files_index
                 /\ m1.yaml_includes = m2.yaml_includes
                 /\ m1.relations = m2.relations

\* Two runs over a root that held the output file and two more files.
C2_Witness ==
    /\ Len(written) >= 2
    /\ written[1].had_output
    /\ written[2].run = written[1].run + 1
    /\ Len(written[1].manifest.files) >= 3
    /\ written[1].manifest.generated # written[2].manifest.generated

\* C10: a failure to read one markup file makes that file alone contribute
\* no includes: it stays listed, the run goes on and, unless something else
\* fails, writes the manifest, prints the confirmation and exits with 0; a
\* failure during the tree walk or the top-level listing aborts the run
\* before the write: nothing is written, an output file already there is
\* left as it was and no confirmation is printed.
C10_TwoTierFailurePolicy ==
    /\ \A e \in readErrors :
          /\ e \in Range(files)
          /\ RelStr(e.path) \notin DOMAIN includes_map
    /\ pc = "done" =>
          /\ status = 0
          /\ out = [state |-> "written", content |-> data]
          /\ stdout # <<>> /\ stdout[Len(stdout)] = Confirmation
    /\ (walkErrors # {} \/ ~Listable(fs, RootPath)) =>
          /\ pc \notin {"print", "done"}
          /\ status # 0
          /\ out.state \in {"absent", "old"}
          /\ written = <<>>
          /\ stdout = <<>>

=============================================================================
